---- MODULE Spec2Model ----
(***************************************************************************)
(* The optimizer of qscgrn (class model in optimizer.py): construction,    *)
(* create_gradient, compute_gradient, the train loop and                   *)
(* export_training_theta.                                                  *)
(*                                                                         *)
(* The circuit simulation (qcircuit.quantum_circuit) is a collaborator.    *)
(* What it returns for a parameter set is kept in `memo`: the first time a *)
(* theta is met its response is chosen freely, afterwards the same theta   *)
(* always yields the same response (the circuit is a deterministic         *)
(* function of theta).  A response carries the scalars the optimizer       *)
(* derives from it: the KL loss of the smoothed distributions, the squared *)
(* error of the raw ones, and for every key the value np.sum(der_loss)     *)
(* takes for that key's derivative column.                                 *)
(*                                                                         *)
(* Python's None and a missing attribute are the empty sequence, a set     *)
(* value x is <<x>>.  Arrays are 1-based here, 0-based in the source.      *)
(***************************************************************************)
EXTENDS Integers, Sequences, FiniteSets, TLC

\* ---- bounds ----
MaxEpochs == 3
MaxCalls == 2
MaxStride == 3

\* ---- the inputs the model is run on ----
Genes == {"g1", "g2"}
Keys == Genes \X Genes
EdgeSets ==
  { {<<"g1", "g2">>},
    {<<"g1", "g2">>, <<"g2", "g1">>},
    {<<"g1", "g1">>, <<"g1", "g2">>} }
Methods == {"kl-divergence", "difference", "hellinger"}
LearningRates == {1, 2}
Thresholds == {1}
DerTables ==
  { [k \in Keys |-> 0],
    [k \in Keys |-> IF k[1] = "g1" THEN 1 ELSE -1] }
ThetaInit == [k \in Keys |-> IF k[1] = k[2] THEN 1 ELSE 0]

\* what the circuit yields for one theta; the loss is zero exactly when the
\* error is (both vanish only when p_out = p_obs)
OutVals == { <<0, 0>>, <<1, 2>>, <<2, 1>> }
Responses ==
  { [loss |-> o[1], error |-> o[2], der |-> d] : o \in OutVals, d \in DerTables }

VARIABLES
  edges, epochs, lr, method, train_encoder, save_theta, loss_threshold,
  theta, loss, error, gradient, training_theta,
  circuit, derivatives, p_out, memo,
  pc, epoch, terminate, l_loss, l_error, tt, progress,
  raised, lastOp, calls, nupdates, thetaStart, exported, sample

vars ==
  << edges, epochs, lr, method, train_encoder, save_theta, loss_threshold,
     theta, loss, error, gradient, training_theta,
     circuit, derivatives, p_out, memo,
     pc, epoch, terminate, l_loss, l_error, tt, progress,
     raised, lastOp, calls, nupdates, thetaStart, exported, sample >>

config == << edges, epochs, lr, method, train_encoder, save_theta, loss_threshold >>
locals == << epoch, terminate, l_loss, l_error, tt, progress >>

\* ---- helpers ----
Zeros(n) == [i \in 1..n |-> 0]
Known(th) == \E m \in memo : m[1] = th
Resp(th) == (CHOOSE m \in memo : m[1] = th)[2]

\* the slice h[:n]
Prefix(h, n) == [i \in 1..(IF n < Len(h) THEN n ELSE Len(h)) |-> h[i]]

\* a slice that drops a last, incomplete stride
RECURSIVE SliceFloor(_, _, _)
SliceFloor(a, start, step) ==
  IF start + step > Len(a) THEN << >>
  ELSE << a[start + 1] >> \o SliceFloor(a, start + step, step)

\* the slice a[start::step], start 0-based
RECURSIVE Slice(_, _, _)
Slice(a, start, step) ==
  IF start >= Len(a) THEN << >>
  ELSE << a[start + 1] >> \o Slice(a, start + step, step)

\* ---- the collaborator ----
GenerateCircuit(th) ==
  /\ circuit' = << th >>
  /\ IF Known(th) THEN memo' = memo
     ELSE \E r \in Responses : memo' = memo \cup { << th, r >> }

CircuitIsEmpty == circuit = << >>
DerIsEmpty == derivatives = << >>

\* ---- pure functions of optimizer.py ----
LossRaises(m) == m \notin {"kl-divergence", "difference"}
LossFunction(th, m) ==
  IF m = "kl-divergence" THEN Resp(th).loss ELSE Resp(th).error
ComputeError(th) == Resp(th).error

\* ---- create_gradient ----
\* the check left out
GradientCheckSkipped == FALSE

GradientIsNotEmpty == gradient # << >>

CreateGradientOutcome ==
  IF CircuitIsEmpty THEN "CircuitEmpty"
  ELSE IF GradientIsNotEmpty THEN "AttributeError"
  ELSE "none"

CreateGradientEffect ==
  gradient' = IF CreateGradientOutcome = "none"
              THEN << [k \in Keys |-> 0] >> ELSE gradient

\* ---- compute_gradient ----
\* a gradient branch that also takes the loss function's second method
MethodSupportedWithDifference(m) == m \in {"kl-divergence", "difference"}

MethodSupported(m) == m = "kl-divergence"

\* the encoder loop run whatever train_encoder says
AssembleAlwaysEncoder(g, der) ==
  [k \in Keys |-> IF k \in edges \/ k[1] = k[2] THEN der[k] ELSE g[k]]

Assemble(g, der) ==
  [k \in Keys |->
     IF k \in edges THEN der[k]
     ELSE IF train_encoder /\ k[1] = k[2] THEN der[k]
     ELSE g[k]]

ComputeGradientOutcome ==
  IF DerIsEmpty THEN "DerEmpty"
  ELSE IF MethodSupported(method) THEN "none"
  ELSE "AttributeError"

ComputeGradientEffect ==
  /\ p_out' = IF DerIsEmpty THEN p_out ELSE circuit
  /\ gradient' = IF ComputeGradientOutcome = "none"
                 THEN << Assemble(gradient[1], Resp(derivatives[1]).der) >>
                 ELSE gradient

\* ---- train ----
\* the last-epoch test off by one
TerminateOffByOne(ep) == ep = epochs

Terminate(ep) == ep + 1 = epochs

\* a threshold test that also stops on equality
StopConditionNonStrict(l, term) == loss_threshold >= l \/ term

StopCondition(l, term) == loss_threshold > l \/ term

\* the histories cut one entry short
TruncateShort(h, ep) == Prefix(h, ep)

Truncate(h, ep) == Prefix(h, ep + 1)

\* the step taken without the learning rate
UpdateThetaNoRate(th, rate, g) == [k \in Keys |-> th[k] - g[k]]

\* lr is the one-element tuple (learning_rate,): the product with the
\* gradient broadcasts its single element over every key
UpdateTheta(th, rate, g) == [k \in Keys |-> th[k] - rate[1] * g[k]]

Init ==
  /\ edges \in EdgeSets
  /\ epochs \in 1..MaxEpochs
  /\ lr \in { << r >> : r \in LearningRates }
  /\ method \in Methods
  /\ train_encoder \in BOOLEAN
  /\ save_theta \in BOOLEAN
  /\ loss_threshold \in Thresholds
  /\ theta = ThetaInit
  /\ loss = Zeros(epochs)
  /\ error = Zeros(epochs)
  /\ gradient = << >>
  /\ training_theta = << >>
  /\ circuit = << >>
  /\ derivatives = << >>
  /\ p_out = << >>
  /\ memo = {}
  /\ pc = "new"
  /\ epoch = 0
  /\ terminate = FALSE
  /\ l_loss = 0
  /\ l_error = 0
  /\ tt = << >>
  /\ progress = 0
  /\ raised = "none"
  /\ lastOp = "none"
  /\ calls = 0
  /\ nupdates = 0
  /\ thetaStart = ThetaInit
  /\ exported = << >>
  /\ sample = 0

\* __init__ (the part after the attributes are stored)
Construct ==
  /\ pc = "new"
  /\ GenerateCircuit(theta)
  /\ IF GradientIsNotEmpty
     THEN /\ raised' = "AttributeError"
          /\ pc' = "failed"
          /\ UNCHANGED gradient
     ELSE /\ gradient' = << [k \in Keys |-> 0] >>
          /\ pc' = "idle"
          /\ UNCHANGED raised
  /\ lastOp' = "__init__"
  /\ UNCHANGED << config, locals, theta, loss, error, training_theta,
                  derivatives, p_out, calls, nupdates, thetaStart,
                  exported, sample >>

\* a call of create_gradient() on the constructed optimizer
CreateGradientCall ==
  /\ pc = "idle"
  /\ calls < MaxCalls
  /\ calls' = calls + 1
  /\ CreateGradientEffect
  /\ raised' = CreateGradientOutcome
  /\ lastOp' = "create_gradient"
  /\ UNCHANGED << config, locals, theta, loss, error, training_theta,
                  circuit, derivatives, p_out, memo, pc, nupdates,
                  thetaStart, exported, sample >>

\* a call of compute_gradient() from outside train()
ComputeGradientCall ==
  /\ pc = "idle"
  /\ calls < MaxCalls
  /\ calls' = calls + 1
  /\ ComputeGradientEffect
  /\ raised' = ComputeGradientOutcome
  /\ lastOp' = "compute_gradient"
  /\ UNCHANGED << config, locals, theta, loss, error, training_theta,
                  circuit, derivatives, memo, pc, nupdates,
                  thetaStart, exported, sample >>

\* train(): lines 252-254 and the entry of the for loop
TrainBegin ==
  /\ pc = "idle"
  /\ calls < MaxCalls
  /\ calls' = calls + 1
  /\ lastOp' = "train"
  /\ raised' = "none"
  /\ progress' = 0
  /\ tt' = << >>
  /\ nupdates' = 0
  /\ thetaStart' = theta
  /\ epoch' = 0
  /\ pc' = IF epochs > 0 THEN "derivatives" ELSE "idle"
  /\ UNCHANGED << config, theta, loss, error, gradient, training_theta,
                  circuit, derivatives, p_out, memo, terminate, l_loss,
                  l_error, exported, sample >>

\* lines 256-257
TrainDerivatives ==
  /\ pc = "derivatives"
  /\ terminate' = Terminate(epoch)
  /\ derivatives' = circuit
  /\ pc' = "gradient"
  /\ UNCHANGED << config, theta, loss, error, gradient, training_theta,
                  circuit, p_out, memo, epoch, l_loss, l_error, tt, progress,
                  raised, lastOp, calls, nupdates, thetaStart, exported,
                  sample >>

\* line 258
TrainGradient ==
  /\ pc = "gradient"
  /\ ComputeGradientEffect
  /\ raised' = ComputeGradientOutcome
  /\ pc' = IF ComputeGradientOutcome = "none" THEN "evaluate" ELSE "idle"
  /\ UNCHANGED << config, locals, theta, loss, error, training_theta,
                  circuit, derivatives, memo, lastOp, calls, nupdates,
                  thetaStart, exported, sample >>

\* lines 259-263
TrainEvaluate ==
  /\ pc = "evaluate"
  /\ IF LossRaises(method)
     THEN /\ raised' = "ValueError"
          /\ pc' = "idle"
          /\ UNCHANGED << l_loss, l_error, loss, error >>
     ELSE /\ l_loss' = LossFunction(p_out[1], method)
          /\ l_error' = ComputeError(p_out[1])
          /\ IF epoch + 1 <= Len(loss)
             THEN /\ loss' = [loss EXCEPT ![epoch + 1] = l_loss']
                  /\ IF epoch + 1 <= Len(error)
                     THEN /\ error' = [error EXCEPT ![epoch + 1] = l_error']
                          /\ raised' = "none"
                          /\ pc' = "progress"
                     ELSE /\ raised' = "IndexError"
                          /\ pc' = "idle"
                          /\ UNCHANGED error
             ELSE /\ raised' = "IndexError"
                  /\ pc' = "idle"
                  /\ UNCHANGED << loss, error >>
  /\ UNCHANGED << config, theta, gradient, training_theta, circuit,
                  derivatives, p_out, memo, epoch, terminate, tt, progress,
                  lastOp, calls, nupdates, thetaStart, exported, sample >>

\* line 264
TrainProgress ==
  /\ pc = "progress"
  /\ progress' = epoch + 1
  /\ pc' = "snapshot"
  /\ UNCHANGED << config, theta, loss, error, gradient, training_theta,
                  circuit, derivatives, p_out, memo, epoch, terminate,
                  l_loss, l_error, tt, raised, lastOp, calls, nupdates,
                  thetaStart, exported, sample >>

\* lines 266-267
TrainSnapshot ==
  /\ pc = "snapshot"
  /\ tt' = IF save_theta THEN Append(tt, theta) ELSE tt
  /\ pc' = "stopcheck"
  /\ UNCHANGED << config, theta, loss, error, gradient, training_theta,
                  circuit, derivatives, p_out, memo, epoch, terminate,
                  l_loss, l_error, progress, raised, lastOp, calls, nupdates,
                  thetaStart, exported, sample >>

\* lines 269-282: the stop branch
TrainStop ==
  /\ pc = "stopcheck"
  /\ StopCondition(l_loss, terminate)
  /\ loss' = Truncate(loss, epoch)
  /\ error' = Truncate(error, epoch)
  /\ training_theta' = IF save_theta THEN << tt >> ELSE training_theta
  /\ pc' = "idle"
  /\ UNCHANGED << config, locals, theta, gradient, circuit, derivatives,
                  p_out, memo, raised, lastOp, calls, nupdates, thetaStart,
                  exported, sample >>

\* the update going straight to the next epoch, the circuit left as built
TrainUpdateNoRegen ==
  /\ pc = "stopcheck"
  /\ ~ StopCondition(l_loss, terminate)
  /\ theta' = UpdateTheta(theta, lr, gradient[1])
  /\ nupdates' = nupdates + 1
  /\ epoch' = epoch + 1
  /\ pc' = "derivatives"
  /\ UNCHANGED << config, terminate, l_loss, l_error, tt, progress, loss,
                  error, gradient, training_theta, circuit, derivatives,
                  p_out, memo, raised, lastOp, calls, thetaStart, exported,
                  sample >>

\* line 269 false, then line 284
TrainUpdate ==
  /\ pc = "stopcheck"
  /\ ~ StopCondition(l_loss, terminate)
  /\ theta' = UpdateTheta(theta, lr, gradient[1])
  /\ nupdates' = nupdates + 1
  /\ pc' = "generate"
  /\ UNCHANGED << config, locals, loss, error, gradient, training_theta,
                  circuit, derivatives, p_out, memo, raised, lastOp, calls,
                  thetaStart, exported, sample >>

\* line 285 and the step of the for loop (line 255)
TrainGenerate ==
  /\ pc = "generate"
  /\ GenerateCircuit(theta)
  /\ IF epoch + 1 < epochs
     THEN /\ epoch' = epoch + 1
          /\ pc' = "derivatives"
     ELSE /\ pc' = "idle"
          /\ UNCHANGED epoch
  /\ UNCHANGED << config, theta, loss, error, gradient, training_theta,
                  derivatives, p_out, terminate, l_loss, l_error, tt,
                  progress, raised, lastOp, calls, nupdates, thetaStart,
                  exported, sample >>

\* export_training_theta(filename, sample = s): the rows np.savetxt writes
ExportTrainingTheta(s) ==
  /\ pc = "idle"
  /\ calls < MaxCalls
  /\ calls' = calls + 1
  /\ lastOp' = "export_training_theta"
  /\ sample' = s
  /\ IF save_theta /\ training_theta # << >>
     THEN /\ exported' = << Slice(training_theta[1], 0, s) >>
          /\ raised' = "none"
     ELSE /\ raised' = "AttributeError"
          /\ UNCHANGED exported
  /\ UNCHANGED << config, locals, theta, loss, error, gradient,
                  training_theta, circuit, derivatives, p_out, memo, pc,
                  nupdates, thetaStart >>

Export == \E s \in 1..MaxStride : ExportTrainingTheta(s)

Next ==
  \/ Construct
  \/ CreateGradientCall
  \/ ComputeGradientCall
  \/ TrainBegin
  \/ TrainDerivatives
  \/ TrainGradient
  \/ TrainEvaluate
  \/ TrainProgress
  \/ TrainSnapshot
  \/ TrainStop
  \/ TrainUpdate
  \/ TrainGenerate
  \/ Export

Spec == Init /\ [][Next]_vars

\* ------------------------------------------------------------------------
\* Properties
\* ------------------------------------------------------------------------
TrainPcs == {"derivatives", "gradient", "evaluate", "progress", "snapshot",
             "stopcheck", "generate"}
TrainReturned == lastOp = "train" /\ pc = "idle"
Trainable(k) == k \in edges \/ (train_encoder /\ k[1] = k[2])
CeilDiv(a, b) == (a + b - 1) \div b

\* C1: train() stops at the first epoch k whose loss is strictly below
\* loss_threshold, or at epoch E when there is none; at the stop both
\* histories have length k, and entry i holds the loss and the error computed
\* in epoch i (written in epoch i, left alone by every later step).
C1_StopsAtFirstLossBelowThreshold ==
  [][ /\ (pc = "evaluate" /\ method = "kl-divergence") =>
           /\ pc' = "progress"
           /\ loss'[epoch + 1] = Resp(theta).loss
           /\ error'[epoch + 1] = Resp(theta).error
           /\ \A i \in 1..epoch : loss'[i] = loss[i] /\ error'[i] = error[i]
      /\ (pc \in TrainPcs \ {"evaluate"}) =>
           \A i \in 1..(epoch + 1) :
              (i <= Len(loss) /\ i <= Len(loss')) =>
                 (loss'[i] = loss[i] /\ error'[i] = error[i])
      /\ (pc \in TrainPcs /\ pc' = "idle" /\ method = "kl-divergence") =>
           /\ pc = "stopcheck"
           /\ raised' = "none"
           /\ Len(loss') = epoch + 1
           /\ Len(error') = epoch + 1
           /\ \A i \in 1..epoch : ~ (loss'[i] < loss_threshold)
           /\ (loss'[epoch + 1] < loss_threshold \/ epoch + 1 = epochs)
    ]_vars

\* a Converged stop before the budget is used up
C1_Witness ==
  /\ TrainReturned /\ raised = "none"
  /\ epochs = 3 /\ Len(loss) = 2 /\ Len(error) = 2
  /\ loss[1] >= loss_threshold /\ loss[2] < loss_threshold

\* C2: the parameter update is never executed in or after the terminal
\* epoch: a train() that stops at epoch k has applied exactly k-1 updates,
\* the updates stay below the epoch budget, and with epochs = 1 the
\* histories have length 1 and theta is never updated.
C2_NoUpdateInTerminalEpoch ==
  /\ nupdates <= epochs
  /\ (pc = "generate") =>
        (epoch + 1 < epochs /\ ~ (l_loss < loss_threshold) /\ nupdates = epoch + 1)
  /\ (TrainReturned /\ raised = "none") =>
        (nupdates = Len(loss) - 1 /\ nupdates < epochs)
  /\ (epochs = 1) =>
        (Len(loss) = 1 /\ Len(error) = 1 /\ nupdates = 0 /\ theta = ThetaInit)

\* an Exhausted stop after two updates
C2_Witness ==
  /\ TrainReturned /\ raised = "none"
  /\ epochs = 3 /\ Len(loss) = 3 /\ nupdates = 2 /\ theta # thetaStart

\* C3: an optimizer with method "difference" can be trained: train() ends
\* normally with a loss history of at most `epochs` entries, each >= 0.
C3_DifferenceTrains ==
  (method = "difference" /\ TrainReturned) =>
     /\ raised = "none"
     /\ Len(loss) >= 1 /\ Len(loss) <= epochs
     /\ \A i \in 1..Len(loss) : loss[i] >= 0

\* C4: the gradient's key space is created once, at construction; a later
\* create_gradient() fails and leaves the gradient (keys and values) as it
\* was, and no operation adds or removes a gradient key.
C4_GradientKeysCreatedOnce ==
  [][ /\ (pc = "new") =>
           (gradient = << >> /\ gradient' # << >> /\ DOMAIN gradient'[1] = Keys)
      /\ (pc # "new") =>
           (gradient # << >> /\ gradient' # << >>
              /\ DOMAIN gradient'[1] = DOMAIN gradient[1])
      /\ (lastOp' = "create_gradient" /\ calls' = calls + 1) =>
           (raised' = "AttributeError" /\ gradient' = gradient)
    ]_vars

\* create_gradient() refused on a gradient that training has filled
C4_Witness ==
  /\ lastOp = "create_gradient" /\ raised = "AttributeError"
  /\ gradient # << >> /\ \E k \in Keys : gradient[1][k] # 0

\* C5: export_training_theta fails whenever save_theta is False; with
\* save_theta True, after a train() that completed c epochs, a stride s >= 1
\* writes ceil(c / s) rows: the snapshots of epochs 0, s, 2s, ... in order.
C5_ExportRows ==
  (lastOp = "export_training_theta") =>
     /\ (~ save_theta) => (raised = "AttributeError" /\ exported = << >>)
     /\ (save_theta /\ training_theta # << >>) =>
          /\ raised = "none"
          /\ exported # << >>
          /\ Len(exported[1]) = CeilDiv(Len(loss), sample)
          /\ \A i \in 1..Len(exported[1]) :
                exported[1][i] = training_theta[1][(i - 1) * sample + 1]

\* three epochs exported with stride 2: rows for epochs 0 and 2
C5_Witness ==
  /\ lastOp = "export_training_theta" /\ save_theta /\ raised = "none"
  /\ sample = 2 /\ Len(loss) = 3 /\ Len(exported[1]) = 2
  /\ exported[1][2] # exported[1][1]

\* C6: a key that is neither a declared edge nor a self-loop key with
\* train_encoder enabled has a zero gradient entry after every
\* compute_gradient() and keeps its initial theta through any training.
C6_UntrainedKeysFrozen ==
  \A k \in Keys :
     (~ Trainable(k)) =>
        /\ gradient # << >> => gradient[1][k] = 0
        /\ theta[k] = ThetaInit[k]
        /\ \A i \in 1..Len(tt) : tt[i][k] = ThetaInit[k]

\* an update was applied while an untrained self-loop key had a non-zero
\* derivative
C6_Witness ==
  /\ ~ train_encoder /\ nupdates >= 1 /\ theta # ThetaInit
  /\ pc = "generate"
  /\ \E k \in Keys :
        k[1] = k[2] /\ k \notin edges /\ Resp(derivatives[1]).der[k] # 0

\* C7: in every epoch the steps run in the order compute_derivatives,
\* compute_gradient, loss/error recorded at the epoch index, progress
\* update, optional snapshot, stop check; every parameter update is
\* followed at once by generate_circuit(), before the next epoch's
\* compute_derivatives, so a gradient is only assembled from a circuit and
\* derivatives built for the current theta.
C7_EpochStepOrder ==
  [][ /\ (pc = "derivatives") =>
           (pc' = "gradient" /\ circuit = << theta >> /\ derivatives' = << theta >>)
      /\ (pc = "gradient") =>
           /\ circuit = << theta >> /\ derivatives = << theta >>
           /\ pc' \in {"evaluate", "idle"}
           /\ (pc' = "evaluate") =>
                \A k \in Keys : Trainable(k) => gradient'[1][k] = Resp(theta).der[k]
      /\ (pc = "evaluate") =>
           /\ pc' \in {"progress", "idle"}
           /\ (pc' = "progress") =>
                (loss'[epoch + 1] = l_loss' /\ error'[epoch + 1] = l_error')
      /\ (pc = "progress") => (pc' = "snapshot" /\ progress' = epoch + 1)
      /\ (pc = "snapshot") =>
           /\ pc' = "stopcheck"
           /\ tt' = IF save_theta THEN Append(tt, theta) ELSE tt
      /\ (pc = "stopcheck") =>
           /\ pc' \in {"idle", "generate"}
           /\ (pc' = "idle") => theta' = theta
      /\ (theta' # theta) => (pc = "stopcheck" /\ pc' = "generate")
      /\ (pc = "generate") =>
           /\ pc' = "derivatives" /\ epoch' = epoch + 1
           /\ theta' = theta /\ circuit' = << theta >>
    ]_vars

\* a gradient about to be assembled in a later epoch, after theta has moved
C7_Witness ==
  pc = "gradient" /\ epoch >= 1 /\ theta # thetaStart /\ circuit = << theta >>

\* C8: with a method the gradient computation does not support, train()
\* fails in its first epoch with the error of compute_gradient(): no update
\* is applied, no loss or error entry is written, the histories keep their
\* length, the gradient is unchanged, and no further epoch is attempted.
C8_UnsupportedMethodFailsFirstEpoch ==
  (method # "kl-divergence") =>
     /\ pc \in {"new", "idle", "derivatives", "gradient"}
     /\ epoch = 0 /\ progress = 0 /\ nupdates = 0
     /\ theta = ThetaInit
     /\ loss = Zeros(epochs) /\ error = Zeros(epochs)
     /\ gradient # << >> => gradient[1] = [k \in Keys |-> 0]
     /\ TrainReturned => raised = "AttributeError"

\* a train() that ended in the gradient's error
C8_Witness ==
  /\ method = "hellinger" /\ TrainReturned /\ raised = "AttributeError"
  /\ epochs = 3 /\ Len(loss) = 3

\* C9: over any sequence of train() calls, every write of loss[epoch] and
\* error[epoch] uses an index below the current length of the history (no
\* IndexError, also after a truncating stop), and the histories never grow
\* beyond the epoch budget.
C9_WritesInsideHistories ==
  /\ raised # "IndexError"
  /\ Len(loss) <= epochs /\ Len(error) <= epochs
  /\ (pc = "evaluate") => (epoch + 1 <= Len(loss) /\ epoch + 1 <= Len(error))

\* a later train() writing into histories an earlier stop has truncated
C9_Witness ==
  /\ lastOp = "train" /\ pc = "progress" /\ calls >= 2
  /\ Len(loss) < epochs /\ loss[epoch + 1] = l_loss

\* C10: with save_theta, after train() stops the trajectory has as many
\* snapshots as the loss history has entries; snapshot 0 is the theta at the
\* start of train(), snapshot i+1 is snapshot i minus lr times the gradient
\* assembled in epoch i, and the last snapshot is the current theta.
C10_TrajectoryMatchesUpdates ==
  (save_theta /\ TrainReturned /\ raised = "none") =>
     /\ training_theta # << >>
     /\ Len(training_theta[1]) = Len(loss)
     /\ training_theta[1][1] = thetaStart
     /\ training_theta[1][Len(loss)] = theta
     /\ \A i \in 1..(Len(loss) - 1) : \A k \in Keys :
           training_theta[1][i + 1][k] =
              training_theta[1][i][k]
                - lr[1] * (IF Trainable(k)
                           THEN Resp(training_theta[1][i]).der[k] ELSE 0)

\* a stored trajectory of three snapshots that moved twice
C10_Witness ==
  /\ save_theta /\ TrainReturned /\ raised = "none"
  /\ Len(training_theta[1]) = 3
  /\ training_theta[1][2] # training_theta[1][1]
  /\ training_theta[1][3] # training_theta[1][2]

====
